---- MODULE Spec2Model ----
(***************************************************************************)
(* Voice interaction coordinator of the AgentExtension content script:     *)
(* SpeechRecognizer (modules/speechRecognition.ts), AudioManager           *)
(* (modules/audio.ts) and their wiring (contentScripts/initializeAudio.ts) *)
(* on top of the browser's SpeechRecognition engine.                       *)
(*                                                                         *)
(* JavaScript is single threaded: every handler (engine event, animation   *)
(* frame, timer, bus message) is one atomic action.  The continuation of   *)
(* an `await` on a resolved promise is a microtask: the queue `microtasks` *)
(* is drained before any other handler may run.  A synchronous             *)
(* dispatchEvent runs its listeners inside the dispatching handler.        *)
(*                                                                         *)
(* The engine is the environment.  It follows Chrome's implementation of   *)
(* the Web Speech API: start() throws InvalidStateError while a session is *)
(* active (started, end event not yet delivered) and succeeds otherwise;   *)
(* an error event is always followed by the end event of the session; the  *)
(* session is over when its end event is dispatched, so start() inside the *)
(* end handler succeeds.                                                    *)
(***************************************************************************)
EXTENDS Integers, Sequences, FiniteSets, TLC

\* ---------------------------------------------------------------- bounds
\* Most animation-frame polling loops scheduled at once.
MaxLoops == 2
\* Most restart timers pending at once.
MaxTimers == 2
\* Most 'end' listeners of stopListening() registered at once
\* (contentScripts/audio.ts).
MaxEndListeners == 2

\* ------------------------------------------------------------- constants
\* audio.ts: const threshold = 60
threshold == 60
\* speechRecognition.ts: setTimeout(..., 3000) / setTimeout(..., 1000)
NetworkDelay == 3000
UnknownDelay == 1000
Delay(kind) == IF kind = "network" THEN NetworkDelay ELSE UnknownDelay

\* Average band energies the analyzer may report (byte scale).
Energies == {60, 61}
\* getByteFrequencyData fills a Uint8Array: every bin is in 0..ByteMax.
ByteMax == 255

\* Engine error codes; "bad-grammar" stands for any code of the default case.
ErrorCodes == {"no-speech", "aborted", "not-allowed", "audio-capture",
               "network", "bad-grammar"}
FatalCodes == {"not-allowed", "audio-capture"}

\* ------------------------------------------------------------ transcripts
\* A transcript is a sequence of words; String.includes is modelled as
\* "contains the phrase as a contiguous run of words".
ToLowerCase(w) ==
    CASE w = "Copilot" -> "copilot"
      [] w = "Hey" -> "hey"
      [] w = "STOP" -> "stop"
      [] OTHER -> w

Lowered(t) == [i \in DOMAIN t |-> ToLowerCase(t[i])]

Includes(t, p) ==
    \E k \in 0..(Len(t) - Len(p)) :
        \A j \in 1..Len(p) : t[k + j] = p[j]

wakeWords == << <<"hey", "copilot">>, <<"ok", "copilot">>, <<"copilot">> >>
sleepCommands == << <<"copilot", "stop">>, <<"stop", "copilot">>,
                    <<"copilot", "exit">>, <<"copilot", "sleep">> >>

detectWakeWord(transcript) ==
    \E i \in DOMAIN wakeWords : Includes(Lowered(transcript), wakeWords[i])

detectSleepCommand(transcript) ==
    \E i \in DOMAIN sleepCommands : Includes(Lowered(transcript), sleepCommands[i])

\* Transcripts the engine may deliver.
Transcripts == { <<"play", "music">>,
                 <<"Hey", "copilot">>,
                 <<"copilot", "STOP">> }

\* A result event: the results from resultIndex on, each with its finality.
Result(t, f) == [transcript |-> t, isFinal |-> f]
ResultEvents ==
    { <<Result(t, f)>> : t \in Transcripts, f \in BOOLEAN }
    \cup { <<Result(t1, TRUE), Result(t2, FALSE)>> :
             t1 \in Transcripts, t2 \in Transcripts }

\* onresult's loop: the concatenation of the final / of the interim parts.
RECURSIVE Concat(_, _, _)
Concat(results, i, final) ==
    IF i > Len(results) THEN <<>>
    ELSE (IF results[i].isFinal = final THEN results[i].transcript ELSE <<>>)
         \o Concat(results, i + 1, final)

finalTranscript(ev) == Concat(ev, 1, TRUE)
interimTranscript(ev) == Concat(ev, 1, FALSE)

\* ------------------------------------------------------------------ state
VARIABLES
    recognition,             \* SpeechRecognizer.recognition # null
    isListening,             \* SpeechRecognizer.isListening
    isCommandDetected,       \* SpeechRecognizer.isCommandDetected (the latch)
    continuous,              \* recognition.continuous
    audioAnalyzer,           \* AudioManager.audioAnalyzer/audioContext # null
    isVoiceDetectionActive,  \* AudioManager.isVoiceDetectionActive
    rafLoops,                \* detectLoop callbacks waiting for the next frame
    engine,                  \* the engine's session
    timers,                  \* pending restart timers, in scheduling order
    microtasks,              \* continuations of awaits, in order
    stopWait,                \* stopListening() asked the session to stop and
                             \* that session's end event is not yet handled
    stopCont,                \* recognition.continuous was true at one of the
                             \* stopListening() calls that stopWait records
    last,                    \* what the last handler did (observation)
    err,                     \* the recovery episode of the last engine error
    utt,                     \* the wake handling of the current utterance
    fatal,                   \* the engine instance has reported a fatal error
    cs,                      \* contentScripts/audio.ts only: the position of
                             \* its driver and the 'end' listeners that
                             \* stopListening() has registered
    page,                    \* the content script's top level: its gesture
                             \* listeners, isInitialized, the AudioManagers
                             \* and SpeechRecognizers it has created and the
                             \* bus messages it has sent
    band,                    \* the voice band of one detectVoiceActivity call:
                             \* the sample rate and the bin indices computed
    bg                       \* background.ts: currentTabId, tabChatThreads,
                             \* the registered tab listeners and the calls
                             \* in flight

vars == << recognition, isListening, isCommandDetected, continuous,
           audioAnalyzer, isVoiceDetectionActive, rafLoops, engine, timers,
           microtasks, stopWait, stopCont, last, err, utt, fatal, cs, page,
           band, bg >>

\* The handlers are written as functions on a record of the whole state.
Cur == [ recognition |-> recognition,
         isListening |-> isListening,
         isCommandDetected |-> isCommandDetected,
         continuous |-> continuous,
         audioAnalyzer |-> audioAnalyzer,
         isVoiceDetectionActive |-> isVoiceDetectionActive,
         rafLoops |-> rafLoops,
         engine |-> engine,
         timers |-> timers,
         microtasks |-> microtasks,
         stopWait |-> stopWait,
         stopCont |-> stopCont,
         cs |-> cs,
         page |-> page,
         o |-> last ]

Obs(op, arg) == [ op |-> op, arg |-> arg, starts |-> <<>>, sig |-> <<>>,
                  playback |-> 0 ]

Begin(op, arg) == [Cur EXCEPT !.o = Obs(op, arg)]

Commit(s) ==
    /\ s.rafLoops <= MaxLoops
    /\ Len(s.timers) <= MaxTimers
    /\ recognition' = s.recognition
    /\ isListening' = s.isListening
    /\ isCommandDetected' = s.isCommandDetected
    /\ continuous' = s.continuous
    /\ audioAnalyzer' = s.audioAnalyzer
    /\ isVoiceDetectionActive' = s.isVoiceDetectionActive
    /\ rafLoops' = s.rafLoops
    /\ engine' = s.engine
    /\ timers' = s.timers
    /\ microtasks' = s.microtasks
    /\ stopWait' = s.stopWait
    /\ stopCont' = s.stopCont
    /\ cs' = s.cs
    /\ page' = s.page
    /\ UNCHANGED <<band, bg>>
    /\ last' = s.o

\* ----------------------------------------------------------------- engine
EngineIdle == [st |-> "idle", continuous |-> FALSE, sound |-> FALSE]

\* A session is active from an accepted start() until its end event.
EngineActive(s) == s.engine.st # "idle"

\* recognition.start(): TRUE when accepted, FALSE when it throws.
StartAccepted(s) == ~EngineActive(s)

EngineStart(s) ==
    [s EXCEPT !.engine = [st |-> "starting", continuous |-> s.continuous,
                          sound |-> FALSE]]

\* recognition.stop(): ask the session to finish; it ends with its end event.
EngineStop(s) ==
    IF s.engine.st \in {"starting", "running"}
    THEN [s EXCEPT !.engine.st = "stopping"]
    ELSE s

\* --------------------------------------------------------- initializeAudio
\* The content script's listeners forward recognizer events to the bus.
Forwarded(sig) ==
    CASE sig = "speech:result:interim" -> <<"USER_COMMAND_RESULT">>
      [] sig = "speech:result:final" -> <<"USER_COMMAND_RESULT">>
      [] sig = "speech:error" -> <<"SPEECH_RECOGNITION_ERROR">>
      [] sig = "speech:awake" -> <<"USER_COMMAND_STARTED">>
      [] sig = "speech:sleep" -> <<"COPILOT_STOP">>
      [] OTHER -> <<>>

\* dispatchEvent of a recognizer / audio manager event.
Dispatch(s, sig) == [s EXCEPT !.o.sig = Append(@, sig)]

\* chrome.runtime.sendMessage(message), called directly.
sendMessage(s, type) == [s EXCEPT !.o.sig = Append(@, type)]

\* console.log of a branch that returns without doing anything else.
consoleLog(s, text) == [s EXCEPT !.o.sig = Append(@, text)]
AlreadyActive == "log:Voice activity detection already active"
NotActive == "log:Voice activity detection not active"

\* The bus messages sent (chrome.runtime.sendMessage) by a handler.
RECURSIVE SentFrom(_, _)
SentFrom(sigs, i) ==
    IF i > Len(sigs) THEN <<>> ELSE Forwarded(sigs[i]) \o SentFrom(sigs, i + 1)
Sent(o) == SentFrom(o.sig, 1)

\* ------------------------------------------------------- SpeechRecognizer
startListening(s, origin) ==
    IF ~s.recognition THEN s
    ELSE IF s.isListening THEN s
    ELSE IF StartAccepted(s)
         THEN [EngineStart(s) EXCEPT
                 !.isListening = TRUE,
                 !.o.starts = Append(@, [origin |-> origin, ok |-> TRUE])]
         ELSE [s EXCEPT
                 !.o.starts = Append(@, [origin |-> origin, ok |-> FALSE])]

\* setupListeners: the 'audio:voiceDetected' listener.
voiceDetectedListener(s) ==
    IF ~s.isListening THEN startListening(s, "vad") ELSE s

\* --------------------------------------------------------- AudioManager
\* detectVoiceActivity comparing with >= instead of >.
detectVoiceActivityInclusive(averageVolume) == averageVolume >= threshold

detectVoiceActivity(averageVolume) == averageVolume > threshold

\* One run of detectLoop.
detectLoop(s, e) ==
    IF ~s.isVoiceDetectionActive
    THEN Dispatch(s, "audio:voiceDetectionEnded")
    ELSE LET s1 == IF detectVoiceActivity(e)
                   THEN voiceDetectedListener(Dispatch(s, "audio:voiceDetected"))
                   ELSE s
         IN [s1 EXCEPT !.rafLoops = @ + 1]

\* startVoiceActivityDetection without the test of the active flag.
startVoiceActivityDetectionUnguarded(s, e) ==
    IF ~s.audioAnalyzer THEN s
    ELSE detectLoop([s EXCEPT !.isVoiceDetectionActive = TRUE], e)

startVoiceActivityDetection(s, e) ==
    IF ~s.audioAnalyzer THEN s
    ELSE IF s.isVoiceDetectionActive THEN consoleLog(s, AlreadyActive)
    ELSE detectLoop([s EXCEPT !.isVoiceDetectionActive = TRUE], e)

stopVoiceActivityDetection(s) ==
    IF ~s.isVoiceDetectionActive THEN consoleLog(s, NotActive)
    ELSE [s EXCEPT !.isVoiceDetectionActive = FALSE]

stopAllAudioPlayback(s) == [s EXCEPT !.o.playback = @ + 1]

\* handleWakeup
handleWakeup(s) ==
    LET s1 == stopAllAudioPlayback([s EXCEPT !.isCommandDetected = TRUE])
        s2 == IF s1.recognition /\ ~s1.continuous
              THEN [s1 EXCEPT !.continuous = TRUE]
              ELSE s1
    IN Dispatch(s2, "speech:awake")

\* A promise resolves: the continuation awaiting it becomes a microtask.
Resolve(s, k) == [s EXCEPT !.microtasks = Append(@, k)]

\* stopListening(): k is the continuation awaiting the returned promise.
\* A rejected promise (no recognition) never runs the continuation.
stopListening(s, k) ==
    IF ~s.recognition THEN s
    ELSE IF ~s.isListening THEN Resolve(s, k)
    ELSE Resolve([EngineStop(s) EXCEPT !.stopWait = TRUE,
                                       !.stopCont = @ \/ s.continuous], k)

\* disableContinuousMode(), up to its await (or to its end).
disableContinuousMode(s, k) ==
    IF s.continuous
    THEN LET s1 == [s EXCEPT !.continuous = FALSE]
         IN IF s1.isListening
            THEN stopListening(s1, "disableContinuousMode:afterStop")
            ELSE Resolve(s1, k)
    ELSE Resolve(s, k)

\* disableContinuousMode() after `await this.stopListening()`.
disableContinuousModeResume(s, k) ==
    Resolve(startListening(s, "sleep"), k)

\* handleSleep(), up to its await.
handleSleep(s) == disableContinuousMode(s, "handleSleep:afterDisable")

\* handleSleep() after `await this.disableContinuousMode()`.
handleSleepResume(s) == Dispatch(s, "speech:sleep")

\* recognition.onstart
onstart(s) ==
    LET s1 == Dispatch(s, "speech:started")
    IN IF s1.continuous THEN stopVoiceActivityDetection(s1) ELSE s1

\* onend with the else branch lost: voice detection is not resumed.
onendNoVoiceDetection(s, e) ==
    LET s1 == Dispatch([s EXCEPT !.isListening = FALSE,
                                 !.isCommandDetected = FALSE],
                       "speech:ended")
    IN IF s1.continuous THEN startListening(s1, "onend") ELSE s1

\* onend without the continuous branch: control always returns to VAD.
onendAlwaysVoiceDetection(s, e) ==
    startVoiceActivityDetection(
        Dispatch([s EXCEPT !.isListening = FALSE, !.isCommandDetected = FALSE],
                 "speech:ended"), e)

\* onend that leaves isListening as it was.
onendStaysListening(s, e) ==
    LET s1 == Dispatch([s EXCEPT !.isCommandDetected = FALSE], "speech:ended")
    IN IF s1.continuous
       THEN startListening(s1, "onend")
       ELSE startVoiceActivityDetection(s1, e)

\* recognition.onend
onend(s, e) ==
    LET s1 == Dispatch([s EXCEPT !.isListening = FALSE,
                                 !.isCommandDetected = FALSE],
                       "speech:ended")
    IN IF s1.continuous
       THEN startListening(s1, "onend")
       ELSE startVoiceActivityDetection(s1, e)

\* setTimeout(() => { if (!this.isListening) this.startListening() }, delay)
setTimeout(s, kind) == [s EXCEPT !.timers = Append(@, kind)]

\* A timer callback that starts the engine whatever isListening says.
timerCallbackForced(s) ==
    IF StartAccepted(s)
    THEN [EngineStart(s) EXCEPT
            !.isListening = TRUE,
            !.o.starts = Append(@, [origin |-> "timer", ok |-> TRUE])]
    ELSE [s EXCEPT !.o.starts = Append(@, [origin |-> "timer", ok |-> FALSE])]

timerCallback(s) ==
    IF ~s.isListening THEN startListening(s, "timer") ELSE s

\* recognition.onerror, case 'not-allowed' / 'audio-capture'
onerrorFatal(s, e) ==
    Dispatch(startVoiceActivityDetection([s EXCEPT !.continuous = FALSE], e),
             "speech:error")

\* The switch with a 'network' case that also leaves continuous mode.
onerrorContinuousClears(s, code, e) ==
    CASE code = "no-speech" ->
            IF ~s.isListening THEN startListening(s, "onerror") ELSE s
      [] code = "aborted" -> s
      [] code \in FatalCodes -> onerrorFatal(s, e)
      [] code = "network" -> setTimeout([s EXCEPT !.continuous = FALSE], "network")
      [] OTHER -> setTimeout(s, "unknown")

\* recognition.onerror, the switch of the continuous branch
onerrorContinuous(s, code, e) ==
    CASE code = "no-speech" ->
            IF ~s.isListening THEN startListening(s, "onerror") ELSE s
      [] code = "aborted" -> s
      [] code \in FatalCodes -> onerrorFatal(s, e)
      [] code = "network" -> setTimeout(s, "network")
      [] OTHER -> setTimeout(s, "unknown")

\* recognition.onerror
onerror(s, code, e) ==
    LET s1 == [s EXCEPT !.isListening = FALSE, !.isCommandDetected = FALSE]
    IN IF s1.continuous
       THEN onerrorContinuous(s1, code, e)
       ELSE startVoiceActivityDetection(s1, e)

\* The final part without the `return` after handleWakeup.
onresultFinalNoReturn(s, ft) ==
    LET s1 == Dispatch(s, "speech:result:final")
        s2 == IF detectWakeWord(ft) /\ ~s1.isCommandDetected
              THEN handleWakeup(s1) ELSE s1
        s3 == IF detectSleepCommand(ft) THEN handleSleep(s2) ELSE s2
    IN [s3 EXCEPT !.isCommandDetected = FALSE]

\* recognition.onresult, the final transcript part
onresultFinal(s, ft) ==
    LET s1 == Dispatch(s, "speech:result:final")
    IN IF detectWakeWord(ft) /\ ~s1.isCommandDetected
       THEN handleWakeup(s1)
       ELSE LET s2 == IF detectSleepCommand(ft) THEN handleSleep(s1) ELSE s1
            IN [s2 EXCEPT !.isCommandDetected = FALSE]

\* recognition.onresult
onresult(s, ev) ==
    LET it == interimTranscript(ev)
        ft == finalTranscript(ev)
        s1 == IF it # <<>> THEN Dispatch(s, "speech:result:interim") ELSE s
    IN IF it # <<>> /\ detectWakeWord(it) /\ ~s1.isCommandDetected
       THEN handleWakeup(s1)
       ELSE IF ft # <<>> THEN onresultFinal(s1, ft) ELSE s1

\* recognition.onsoundstart / onsoundend
onsoundstart(s) == stopVoiceActivityDetection(s)
onsoundend(s, e) == startVoiceActivityDetection(s, e)

\* The engine API in the page: present, absent, or present with a
\* constructor that throws.
SpeechApis == {"present", "absent", "throws"}

\* SpeechRecognizer.initialize() + setupRecognition()
initialize(s, api) ==
    CASE api = "absent" -> s
      [] api = "throws" -> sendMessage(s, "SPEECH_RECOGNITION_ERROR")
      [] OTHER -> [s EXCEPT !.recognition = TRUE, !.continuous = FALSE]

\* initializeAudio: the 'audio:initialized' listener
audioInitializedListener(s, api, e) ==
    startVoiceActivityDetection(initialize(s, api), e)

\* initializeAudio: chrome.runtime.onMessage listener of the content script
onMessage(s, type) ==
    IF type = "USER_COMMAND_STARTED" THEN stopAllAudioPlayback(s) ELSE s

\* The chrome.runtime.onMessage listener of the content script as
\* models/types.ts has it: START_LISTENING and STOP_LISTENING reach the
\* recognizer.  isInitialized is set once AudioManager.initialize() has
\* returned, which is when the audio graph exists; nothing awaits the promise
\* of stopListening().
onMessage_types(s, type) ==
    CASE type = "START_LISTENING" ->
             IF s.audioAnalyzer THEN startListening(s, "bus") ELSE s
      [] type = "STOP_LISTENING" ->
             [stopListening(s, "none") EXCEPT !.microtasks = s.microtasks]
      [] type = "USER_COMMAND_STARTED" -> stopAllAudioPlayback(s)
      [] OTHER -> s

\* ------------------------------------------------------------ observation
CountStarts(o, origin) ==
    Cardinality({i \in DOMAIN o.starts : o.starts[i].origin = origin})
CountRefused(o) ==
    Cardinality({i \in DOMAIN o.starts : ~o.starts[i].ok})
CountSig(o, sig) ==
    Cardinality({i \in DOMAIN o.sig : o.sig[i] = sig})
CountMsg(o, msg) ==
    Cardinality({i \in DOMAIN Sent(o) : Sent(o)[i] = msg})

\* The recovery episode of an engine error: the error handler, the handler
\* of the end event that follows, and the expiry of the timer the error
\* scheduled.  calls: the engine start() calls made inside these handlers;
\* pol: those made by the restart policy itself (not by the voice-detected
\* listener); tix: the place of the scheduled timer in `timers`, 0 if none.
NoErr == [ phase |-> "none", code |-> "none", cont |-> FALSE, calls |-> 0,
           pol |-> 0, sched |-> FALSE, tix |-> 0, refused |-> FALSE ]

\* A finished episode is forgotten by the next handler.
Settle(r) == IF r.phase = "ended" /\ r.tix = 0 THEN NoErr ELSE r

NoUtt == [ iw |-> FALSE, wakes |-> 0, fin |-> "none" ]

\* A finished utterance is forgotten by the next handler.
Forget(u) == IF u.fin # "none" THEN NoUtt ELSE u

\* The utterance record after a result event handled with observation o.
UttAfter(u, ev, o) ==
    LET it == interimTranscript(ev)
        ft == finalTranscript(ev)
        w == CountSig(o, "speech:awake")
    IN IF it # <<>> /\ ft # <<>>
       THEN \* the final part closes an utterance, the interim part opens one
            [ iw |-> detectWakeWord(it),
              wakes |-> IF detectWakeWord(it) THEN w ELSE 0,
              fin |-> "none" ]
       ELSE IF ft # <<>>
       THEN [ Forget(u) EXCEPT !.wakes = @ + w,
                     !.fin = IF detectWakeWord(ft) THEN "wake" ELSE "other" ]
       ELSE [ Forget(u) EXCEPT !.wakes = @ + w,
                     !.iw = @ \/ detectWakeWord(it) ]

\* ---------------------------------------------------------------- actions
\* No detectVoiceActivity call has computed its band yet.
NoBand == [ impl |-> "none", sampleRate |-> 0,
            voiceRangeStart |-> 0, voiceRangeEnd |-> 0 ]

\* The tabs of the browser window; a tab id is never 0, which stands for
\* null (no tab, no thread).
MaxTabs == 2
Tabs == 1..MaxTabs

\* background.ts when the service worker starts: no current tab, no binding,
\* no tab listener registered, nothing in flight.  open and active are the
\* browser's: the tabs not yet removed and the active tab.  agent and sent
\* are what the last handler did: its uploadUserPrompt calls and the
\* messages it sent to tabs.  created counts the threads the backend has
\* created for a tab.  queries holds the sender tab of each SCRIPT_LOADED
\* whose chrome.tabs.query callback has not run yet.
NoBg == [ currentTabId |-> 0,
          tabChatThreads |-> [t \in Tabs |-> 0],
          listeners |-> 0,
          open |-> Tabs,
          active |-> 0,
          queries |-> <<>>,
          acts |-> <<>>,
          prompts |-> <<>>,
          created |-> [t \in Tabs |-> 0],
          agent |-> 0,
          sent |-> <<>> ]

\* The modular content script does not run the driver of
\* contentScripts/audio.ts.
NoCS == [ driver |-> "none", endListeners |-> <<>> ]

\* The top level of the content script once its one initialisation has
\* been triggered: the gesture listeners play no further part.
NoPage == [ listeners |-> {}, isInitialized |-> FALSE, audioContext |-> TRUE,
            managers |-> <<>>, inits |-> <<>>, sent |-> <<>> ]

Init ==
    /\ recognition = FALSE
    /\ isListening = FALSE
    /\ isCommandDetected = FALSE
    /\ continuous = FALSE
    /\ audioAnalyzer = FALSE
    /\ isVoiceDetectionActive = FALSE
    /\ rafLoops = 0
    /\ engine = EngineIdle
    /\ timers = <<>>
    /\ microtasks = <<>>
    /\ stopWait = FALSE
    /\ stopCont = FALSE
    /\ last = Obs("constructor", "none")
    /\ err = NoErr
    /\ utt = NoUtt
    /\ fatal = FALSE
    /\ cs = NoCS
    /\ page = NoPage
    /\ band = NoBand
    /\ bg = NoBg

\* AudioManager.initialize() succeeds and dispatches 'audio:initialized'.
AudioInitialized(api, e) ==
    /\ microtasks = <<>>
    /\ ~audioAnalyzer
    /\ Commit(audioInitializedListener(
                [Begin("audio:initialized", api) EXCEPT !.audioAnalyzer = TRUE],
                api, e))
    /\ UNCHANGED <<err, utt>>
    /\ fatal' = FALSE

\* The engine delivers the start event of a session.
EngStart ==
    /\ microtasks = <<>>
    /\ engine.st = "starting"
    /\ Commit(onstart([Begin("onstart", "none") EXCEPT !.engine.st = "running"]))
    /\ err' = Settle(err)
    /\ utt' = Forget(utt)
    /\ UNCHANGED fatal

EngSoundStart ==
    /\ microtasks = <<>>
    /\ engine.st = "running"
    /\ ~engine.sound
    /\ Commit(onsoundstart([Begin("onsoundstart", "none") EXCEPT !.engine.sound = TRUE]))
    /\ err' = Settle(err)
    /\ utt' = Forget(utt)
    /\ UNCHANGED fatal

EngSoundEnd(e) ==
    /\ microtasks = <<>>
    /\ engine.st \in {"running", "stopping", "ending"}
    /\ engine.sound
    /\ Commit(onsoundend([Begin("onsoundend", "none") EXCEPT !.engine.sound = FALSE], e))
    /\ err' = Settle(err)
    /\ utt' = Forget(utt)
    /\ UNCHANGED fatal

\* The engine delivers a result event.  A session that was started
\* one-shot, or that was asked to stop, finishes with its final result.
EngResult(ev) ==
    /\ microtasks = <<>>
    /\ engine.st \in {"running", "stopping"}
    /\ LET keep == engine.st = "running"
                   /\ (engine.continuous \/ finalTranscript(ev) = <<>>)
           s == onresult([Begin("onresult", "none") EXCEPT
                            !.engine.st = IF keep THEN "running"
                                          ELSE IF finalTranscript(ev) = <<>>
                                               THEN "stopping" ELSE "ending"], ev)
       IN /\ Commit(s)
          /\ utt' = UttAfter(utt, ev, s.o)
    /\ err' = Settle(err)
    /\ UNCHANGED fatal

\* The engine reports an error; the session's end event will follow.
EngError(code, e) ==
    /\ microtasks = <<>>
    /\ engine.st \in {"starting", "running", "stopping"}
    /\ ~engine.sound
    /\ LET s == onerror([Begin("onerror", code) EXCEPT !.engine.st = "errored"],
                        code, e)
       IN /\ Commit(s)
          /\ err' = [ phase |-> "error", code |-> code, cont |-> continuous,
                      calls |-> Len(s.o.starts),
                      pol |-> CountStarts(s.o, "onerror"),
                      sched |-> Len(s.timers) > Len(timers),
                      tix |-> IF Len(s.timers) > Len(timers)
                              THEN Len(s.timers) ELSE 0,
                      refused |-> CountRefused(s.o) > 0 ]
    /\ utt' = NoUtt
    /\ fatal' = (fatal \/ code \in FatalCodes)

\* The engine delivers the end event: the session is over.
EngEnd(e) ==
    /\ microtasks = <<>>
    /\ engine.st \in {"running", "stopping", "ending", "errored"}
    /\ ~engine.sound
    /\ LET s == onend([Begin("onend", IF stopCont
                                       THEN "stopListening:continuous"
                                       ELSE IF stopWait THEN "stopListening"
                                                        ELSE "none")
                         EXCEPT !.engine = EngineIdle,
                                !.stopWait = FALSE,
                                !.stopCont = FALSE], e)
       IN /\ Commit(s)
          /\ err' = IF err.phase = "error"
                    THEN [err EXCEPT !.phase = "ended",
                                     !.calls = @ + Len(s.o.starts),
                                     !.pol = @ + CountStarts(s.o, "onend"),
                                     !.refused = @ \/ CountRefused(s.o) > 0]
                    ELSE Settle(err)
    /\ utt' = NoUtt
    /\ UNCHANGED fatal

\* An animation frame: every scheduled detectLoop callback runs.
RECURSIVE RunLoops(_, _, _)
RunLoops(s, n, e) ==
    IF n = 0 THEN s ELSE RunLoops(detectLoop(s, e), n - 1, e)

AnimationFrame(e) ==
    /\ microtasks = <<>>
    /\ rafLoops > 0
    /\ Commit(RunLoops([Begin("frame", "none") EXCEPT !.rafLoops = 0], rafLoops, e))
    /\ err' = IF err.phase = "error"
              THEN [err EXCEPT !.refused = @ \/ CountRefused(last') > 0]
              ELSE Settle(err)
    /\ utt' = Forget(utt)
    /\ UNCHANGED fatal

\* Timers fire in the order of their expiry: a timer waits for every timer
\* scheduled before it with a delay that is not longer.
CanFire(i) == \A j \in 1..(i - 1) : Delay(timers[j]) > Delay(timers[i])

Remove(seq, i) == SubSeq(seq, 1, i - 1) \o SubSeq(seq, i + 1, Len(seq))

TimerFire(i) ==
    /\ microtasks = <<>>
    /\ i \in DOMAIN timers
    /\ CanFire(i)
    /\ LET s == timerCallback([Begin("timer", timers[i]) EXCEPT
                                 !.timers = Remove(timers, i)])
       IN /\ Commit(s)
          /\ err' = IF err.tix = i
                    THEN [err EXCEPT !.tix = 0,
                                     !.calls = @ + Len(s.o.starts),
                                     !.pol = @ + CountStarts(s.o, "timer")]
                    ELSE IF i < err.tix
                    THEN [err EXCEPT !.tix = @ - 1]
                    ELSE Settle(err)
    /\ utt' = Forget(utt)
    /\ UNCHANGED fatal

\* The head of the microtask queue runs.
Microtask ==
    /\ microtasks # <<>>
    /\ LET k == Head(microtasks)
           s == [Begin(k, "none") EXCEPT !.microtasks = Tail(microtasks)]
       IN Commit(IF k = "disableContinuousMode:afterStop"
                 THEN disableContinuousModeResume(s, "handleSleep:afterDisable")
                 ELSE handleSleepResume(s))
    /\ err' = Settle(err)
    /\ utt' = Forget(utt)
    /\ UNCHANGED fatal

\* A bus message reaches the content script.
BusMessages == {"USER_COMMAND_STARTED", "START_LISTENING", "STOP_LISTENING"}

BusMessage(type) ==
    /\ microtasks = <<>>
    /\ Commit(onMessage(Begin("onMessage", type), type))
    /\ err' = Settle(err)
    /\ utt' = Forget(utt)
    /\ UNCHANGED fatal

Next ==
    \/ \E api \in SpeechApis, e \in Energies : AudioInitialized(api, e)
    \/ EngStart
    \/ EngSoundStart
    \/ \E e \in Energies : EngSoundEnd(e)
    \/ \E ev \in ResultEvents : EngResult(ev)
    \/ \E code \in ErrorCodes, e \in Energies : EngError(code, e)
    \/ \E e \in Energies : EngEnd(e)
    \/ \E e \in Energies : AnimationFrame(e)
    \/ \E i \in 1..MaxTimers + 1 : TimerFire(i)
    \/ Microtask
    \/ \E type \in BusMessages : BusMessage(type)

Spec == Init /\ [][Next]_vars

\* The same pipeline under the message listener of models/types.ts.
BusMessage_types(type) ==
    /\ microtasks = <<>>
    /\ Commit(onMessage_types(Begin("onMessage", type), type))
    /\ err' = Settle(err)
    /\ utt' = Forget(utt)
    /\ UNCHANGED fatal

Next_bus ==
    \/ \E api \in SpeechApis, e \in Energies : AudioInitialized(api, e)
    \/ EngStart
    \/ EngSoundStart
    \/ \E e \in Energies : EngSoundEnd(e)
    \/ \E ev \in ResultEvents : EngResult(ev)
    \/ \E code \in ErrorCodes, e \in Energies : EngError(code, e)
    \/ \E e \in Energies : EngEnd(e)
    \/ \E e \in Energies : AnimationFrame(e)
    \/ \E i \in 1..MaxTimers + 1 : TimerFire(i)
    \/ Microtask
    \/ \E type \in BusMessages : BusMessage_types(type)

Spec_bus == Init /\ [][Next_bus]_vars

\* ------------------------------------------------ contentScripts/audio.ts
\* The sibling implementation: one script with module-level state, which
\* sends its bus messages itself.  Its functions carry the suffix _cs.  It
\* uses the same state: recognition, isListening, copilotCommandDetected
\* (isCommandDetected), recognition.continuous, audioAnalyzer,
\* isVoiceDetectionActive and the engine.

\* const threshold = 0.1 on the power scale; energies are counted in tenths.
threshold_cs == 1
Energies_cs == {1, 2}

\* The inline wake / sleep tests of onresult.
includesWake_cs(transcript) ==
    \/ Includes(Lowered(transcript), <<"hey", "copilot">>)
    \/ Includes(Lowered(transcript), <<"copilot">>)

includesSleep_cs(transcript) ==
    \/ Includes(Lowered(transcript), <<"stop", "copilot">>)
    \/ Includes(Lowered(transcript), <<"copilot", "stop">>)

\* startListening(): isListening is set by onstart, not here.
startListening_cs(s, origin) ==
    IF ~s.recognition THEN s
    ELSE IF s.isListening THEN s
    ELSE IF StartAccepted(s)
         THEN [EngineStart(s) EXCEPT
                 !.o.starts = Append(@, [origin |-> origin, ok |-> TRUE])]
         ELSE [s EXCEPT
                 !.o.starts = Append(@, [origin |-> origin, ok |-> FALSE])]

detectVoiceActivity_cs(averageVolume) == averageVolume > threshold_cs

detectLoop_cs(s, e) ==
    IF ~s.isVoiceDetectionActive THEN s
    ELSE LET s1 == IF detectVoiceActivity_cs(e) /\ ~s.isListening
                   THEN startListening_cs(s, "vad")
                   ELSE s
         IN [s1 EXCEPT !.rafLoops = @ + 1]

startVoiceActivityDetection_cs(s, e) ==
    IF ~s.audioAnalyzer THEN s
    ELSE IF s.isVoiceDetectionActive THEN consoleLog(s, AlreadyActive)
    ELSE detectLoop_cs([s EXCEPT !.isVoiceDetectionActive = TRUE], e)

\* A promise resolves; k = "none" when nothing awaits it.
Resolve_cs(s, k) == IF k = "none" THEN s ELSE Resolve(s, k)

\* stopListening(): resolves from the 'end' listener it registers.
stopListening_cs(s, k) ==
    IF ~s.recognition THEN Resolve_cs(s, k)
    ELSE IF ~s.isListening THEN Resolve_cs(s, k)
    ELSE [EngineStop(s) EXCEPT !.cs.endListeners = Append(@, k),
                               !.stopWait = TRUE,
                               !.stopCont = @ \/ s.continuous]

\* disableContinuousMode(), up to its await (or to its end).
disableContinuousMode_cs(s, k) ==
    IF s.continuous
    THEN LET s1 == [s EXCEPT !.continuous = FALSE]
         IN IF s1.isListening
            THEN stopListening_cs(s1, "disableContinuousMode_cs:afterStop")
            ELSE Resolve_cs(s1, k)
    ELSE Resolve_cs(s, k)

\* disableContinuousMode() after `await stopListening()`.
disableContinuousModeResume_cs(s, k) ==
    Resolve_cs(startListening_cs(s, "sleep"), k)

\* recognition.onstart
onstart_cs(s) ==
    LET s1 == sendMessage([s EXCEPT !.isListening = TRUE],
                          "SPEECH_RECOGNITION_STARTED")
    IN IF s1.continuous THEN stopVoiceActivityDetection(s1) ELSE s1

\* The handleEnd listeners of stopListening(), run after onend.
RECURSIVE handleEnd(_, _)
handleEnd(s, ls) ==
    IF ls = <<>> THEN s ELSE handleEnd(Resolve_cs(s, Head(ls)), Tail(ls))

\* recognition.onend, then the registered 'end' listeners
onend_cs(s, e) ==
    LET s1 == [s EXCEPT !.isListening = FALSE, !.isCommandDetected = FALSE]
        s2 == IF s1.continuous
              THEN startListening_cs(s1, "onend")
              ELSE startVoiceActivityDetection_cs(
                       sendMessage(s1, "SPEECH_RECOGNITION_ENDED"), e)
    IN handleEnd([s2 EXCEPT !.cs.endListeners = <<>>], s2.cs.endListeners)

\* recognition.onerror
onerror_cs(s, e) ==
    startVoiceActivityDetection_cs(
        sendMessage([s EXCEPT !.isListening = FALSE,
                              !.isCommandDetected = FALSE],
                    "SPEECH_RECOGNITION_ERROR"), e)

\* onresult: `if (recognition?.continuous) recognition.continuous = true`
enableContinuous_cs(s) ==
    IF s.recognition /\ s.continuous THEN [s EXCEPT !.continuous = TRUE] ELSE s

\* recognition.onresult, up to its await (or to its end)
onresult_cs(s, ev) ==
    LET it == interimTranscript(ev)
        ft == finalTranscript(ev)
    IN IF it # <<>> /\ includesWake_cs(it) /\ ~s.isCommandDetected
       THEN sendMessage(
              enableContinuous_cs(
                stopAllAudioPlayback([s EXCEPT !.isCommandDetected = TRUE])),
              "USER_COMMAND_STARTED")
       ELSE IF ft = <<>> THEN s
       ELSE IF includesWake_cs(ft) /\ ~s.isCommandDetected
       THEN sendMessage(enableContinuous_cs(stopAllAudioPlayback(s)),
                        "USER_COMMAND_STARTED")
       ELSE IF includesSleep_cs(ft)
       THEN disableContinuousMode_cs(s, "onresult_cs:afterDisable")
       ELSE sendMessage(s, "USER_COMMAND_RESULT")

\* onresult after `await disableContinuousMode()`
onresultResume_cs(s) ==
    sendMessage(sendMessage(s, "COPILOT_STOP"), "USER_COMMAND_RESULT")

\* initializeAudioProcessing() after getUserMedia settled
initializeAudioProcessing_cs(s, captured) ==
    IF captured THEN [s EXCEPT !.audioAnalyzer = TRUE]
    ELSE sendMessage(s, "AUDIO_CAPTURE_ERROR")

\* initializeSpeechRecognition(): without the API it only logs; when the
\* constructor throws, the catch block reports the failure on the bus and
\* recognition stays null.
initializeSpeechRecognition_cs(s, api) ==
    CASE api = "absent" -> s
      [] api = "throws" -> sendMessage(s, "SPEECH_RECOGNITION_ERROR")
      [] OTHER -> [s EXCEPT !.recognition = TRUE, !.continuous = FALSE]

\* The driver's chrome.runtime.onMessage listener
onMessage_cs(s, type) ==
    CASE type = "START_LISTENING" -> startListening_cs(s, "bus")
      [] type = "STOP_LISTENING" -> stopListening_cs(s, "none")
      [] OTHER -> s

\* The script is loaded: the driver has registered its message listener and
\* waits for the capture stream.
Init_cs ==
    /\ recognition = FALSE
    /\ isListening = FALSE
    /\ isCommandDetected = FALSE
    /\ continuous = FALSE
    /\ audioAnalyzer = FALSE
    /\ isVoiceDetectionActive = FALSE
    /\ rafLoops = 0
    /\ engine = EngineIdle
    /\ timers = <<>>
    /\ microtasks = <<>>
    /\ stopWait = FALSE
    /\ stopCont = FALSE
    /\ last = Obs("driver", "none")
    /\ err = NoErr
    /\ utt = NoUtt
    /\ fatal = FALSE
    /\ cs = [ driver |-> "capturing", endListeners |-> <<>> ]
    /\ page = NoPage
    /\ band = NoBand
    /\ bg = NoBg

\* The rest of the driver, once initializeAudioProcessing() has settled.
Driver_cs(captured, api, e) ==
    /\ microtasks = <<>>
    /\ cs.driver = "capturing"
    /\ Commit(startVoiceActivityDetection_cs(
                initializeSpeechRecognition_cs(
                  initializeAudioProcessing_cs(
                    [Begin("driver", "none") EXCEPT !.cs.driver = "done"],
                    captured),
                  api),
                e))
    /\ UNCHANGED <<err, utt, fatal>>

EngStart_cs ==
    /\ microtasks = <<>>
    /\ engine.st = "starting"
    /\ Commit(onstart_cs([Begin("onstart", "none") EXCEPT !.engine.st = "running"]))
    /\ UNCHANGED <<err, utt, fatal>>

EngResult_cs(ev) ==
    /\ microtasks = <<>>
    /\ engine.st \in {"running", "stopping"}
    /\ LET keep == engine.st = "running"
                   /\ (engine.continuous \/ finalTranscript(ev) = <<>>)
       IN Commit(onresult_cs([Begin("onresult", "none") EXCEPT
                    !.engine.st = IF keep THEN "running"
                                  ELSE IF finalTranscript(ev) = <<>>
                                       THEN "stopping" ELSE "ending"], ev))
    /\ UNCHANGED <<err, utt, fatal>>

EngError_cs(code, e) ==
    /\ microtasks = <<>>
    /\ engine.st \in {"starting", "running", "stopping"}
    /\ Commit(onerror_cs([Begin("onerror", code) EXCEPT !.engine.st = "errored"], e))
    /\ UNCHANGED <<err, utt, fatal>>

EngEnd_cs(e) ==
    /\ microtasks = <<>>
    /\ engine.st \in {"running", "stopping", "ending", "errored"}
    /\ Commit(onend_cs([Begin("onend", "none") EXCEPT !.engine = EngineIdle,
                                                      !.stopWait = FALSE,
                                                      !.stopCont = FALSE], e))
    /\ UNCHANGED <<err, utt, fatal>>

RECURSIVE RunLoops_cs(_, _, _)
RunLoops_cs(s, n, e) ==
    IF n = 0 THEN s ELSE RunLoops_cs(detectLoop_cs(s, e), n - 1, e)

AnimationFrame_cs(e) ==
    /\ microtasks = <<>>
    /\ rafLoops > 0
    /\ Commit(RunLoops_cs([Begin("frame", "none") EXCEPT !.rafLoops = 0],
                          rafLoops, e))
    /\ UNCHANGED <<err, utt, fatal>>

Microtask_cs ==
    /\ microtasks # <<>>
    /\ LET k == Head(microtasks)
           s == [Begin(k, "none") EXCEPT !.microtasks = Tail(microtasks)]
       IN Commit(IF k = "disableContinuousMode_cs:afterStop"
                 THEN disableContinuousModeResume_cs(s, "onresult_cs:afterDisable")
                 ELSE onresultResume_cs(s))
    /\ UNCHANGED <<err, utt, fatal>>

BusMessage_cs(type) ==
    /\ microtasks = <<>>
    /\ LET s == onMessage_cs(Begin("onMessage", type), type)
       IN /\ Len(s.cs.endListeners) <= MaxEndListeners
          /\ Commit(s)
    /\ UNCHANGED <<err, utt, fatal>>

Next_cs ==
    \/ \E captured \in BOOLEAN, api \in SpeechApis, e \in Energies_cs :
          Driver_cs(captured, api, e)
    \/ EngStart_cs
    \/ \E ev \in ResultEvents : EngResult_cs(ev)
    \/ \E code \in ErrorCodes, e \in Energies_cs : EngError_cs(code, e)
    \/ \E e \in Energies_cs : EngEnd_cs(e)
    \/ \E e \in Energies_cs : AnimationFrame_cs(e)
    \/ Microtask_cs
    \/ \E type \in BusMessages : BusMessage_cs(type)

Spec_cs == Init_cs /\ [][Next_cs]_vars

\* ------------------------------------- initializeAudio: the user gesture
\* The top level of the modular content script: main() registers one
\* initHandler for each gesture event and the first gestures create the
\* AudioManager and the SpeechRecognizer.  The module-level variables
\* audioManager and speechRecognizer refer to the objects created last.
\* What the created objects do once they run is the subject of Spec; here
\* the calls made into them are recorded: inits[i] counts the calls of
\* initialize() on the i-th recognizer and managers[i].vad is set when voice
\* detection is started on the i-th manager.
events == {"click", "keydown", "touchstart"}

\* setupAudioEventListeners: the 'audio:initialized' listener.  It reads the
\* module-level variables, i.e. the objects created last.
onAudioInitialized(p) ==
    LET k == Len(p.managers)
        p1 == [p EXCEPT !.inits[k] = @ + 1]
    IN IF p1.managers[k].st = "ready" /\ ~p1.managers[k].vad
       THEN [p1 EXCEPT !.managers[k].vad = TRUE]
       ELSE p1

\* setupAudioEventListeners: the 'audio:error' listener only logs.
onAudioError(p) == p

\* initHandler after `await initializeWithUserGesture()`: the handler is
\* removed from every gesture event.
initHandlerResume(p) == [p EXCEPT !.listeners = {}]

\* initializeWithUserGesture() after `await audioManager.initialize()`,
\* which never rejects.
initializeWithUserGestureResume(p) ==
    initHandlerResume([p EXCEPT !.isInitialized = TRUE])

\* How getUserMedia settles: with a stream, or rejected because permission
\* was denied or no device was found.
CaptureOutcomes == {"ok", "NotAllowedError", "NotFoundError"}

\* AudioManager.initialize() of the i-th manager after its awaits: the
\* graph is built and 'audio:initialized' dispatched, or the catch block
\* dispatches 'audio:error'.
initializeSettled(p, i, ok) ==
    IF ok
    THEN onAudioInitialized([p EXCEPT !.managers[i].st = "ready"])
    ELSE onAudioError([p EXCEPT !.managers[i].st = "failed"])

\* initializeWithUserGesture(), up to its await (or to its end when the
\* AudioContext constructor throws).
initializeWithUserGesture(p) ==
    LET p1 == [p EXCEPT !.managers = Append(@, [st |-> "awaiting", vad |-> FALSE]),
                        !.inits = Append(@, 0)]
    IN IF p1.audioContext
       THEN p1
       ELSE initializeWithUserGestureResume(
                initializeSettled(p1, Len(p1.managers), FALSE))

\* initHandler, registered with { once: true } for each gesture event.
initHandler(p, type) ==
    LET p1 == [p EXCEPT !.listeners = @ \ {type}]
    IN IF ~p1.isInitialized THEN initializeWithUserGesture(p1) ELSE p1

\* main(): the script is loaded.
main == [ listeners |-> events, isInitialized |-> FALSE, audioContext |-> TRUE,
          managers |-> <<>>, inits |-> <<>>, sent |-> <<"SCRIPT_LOADED">> ]

Init_gesture ==
    /\ recognition = FALSE
    /\ isListening = FALSE
    /\ isCommandDetected = FALSE
    /\ continuous = FALSE
    /\ audioAnalyzer = FALSE
    /\ isVoiceDetectionActive = FALSE
    /\ rafLoops = 0
    /\ engine = EngineIdle
    /\ timers = <<>>
    /\ microtasks = <<>>
    /\ stopWait = FALSE
    /\ stopCont = FALSE
    /\ last = Obs("main", "none")
    /\ err = NoErr
    /\ utt = NoUtt
    /\ fatal = FALSE
    /\ cs = NoCS
    /\ \E supported \in BOOLEAN : page = [main EXCEPT !.audioContext = supported]
    /\ band = NoBand
    /\ bg = NoBg

\* The user makes a gesture; the handler runs if it is still registered.
Gesture(type) ==
    /\ type \in page.listeners
    /\ page' = initHandler(page, type)
    /\ last' = Obs("initHandler", type)
    /\ UNCHANGED << recognition, isListening, isCommandDetected, continuous,
                    audioAnalyzer, isVoiceDetectionActive, rafLoops, engine,
                    timers, microtasks, stopWait, stopCont, err, utt, fatal, cs,
                    band, bg >>

\* getUserMedia of the i-th manager settles; the continuations of
\* initializeWithUserGesture and of initHandler follow as microtasks.
CaptureSettled(i, outcome) ==
    /\ i \in DOMAIN page.managers
    /\ page.managers[i].st = "awaiting"
    /\ page' = initializeWithUserGestureResume(
                    initializeSettled(page, i, outcome = "ok"))
    /\ last' = Obs("initialize", outcome)
    /\ UNCHANGED << recognition, isListening, isCommandDetected, continuous,
                    audioAnalyzer, isVoiceDetectionActive, rafLoops, engine,
                    timers, microtasks, stopWait, stopCont, err, utt, fatal, cs,
                    band, bg >>

\* A bus message reaches the content script; `audioManager?.` does nothing
\* before the first gesture.
BusMessage_gesture(type) ==
    /\ Commit(IF page.managers # <<>>
              THEN onMessage(Begin("onMessage", type), type)
              ELSE Begin("onMessage", type))
    /\ UNCHANGED <<err, utt, fatal>>

Next_gesture ==
    \/ \E type \in events : Gesture(type)
    \/ \E i \in 1..Cardinality(events), outcome \in CaptureOutcomes :
          CaptureSettled(i, outcome)
    \/ \E type \in BusMessages : BusMessage_gesture(type)

Spec_gesture == Init_gesture /\ [][Next_gesture]_vars

\* ------------------------------------- detectVoiceActivity: the voice band
\* audioAnalyzer.fftSize, set by both implementations.
fftSize == 2048

\* AnalyserNode.frequencyBinCount: half the FFT size.
frequencyBinCount == fftSize \div 2

\* Sample rates an AudioContext may run at: the multiples of 1 kHz and of
\* 11.025 kHz from 8 kHz to 96 kHz (24 kHz, 44.1 kHz and 48 kHz among them).
SampleRates == {1000 * k : k \in 8..96} \cup {11025 * k : k \in 1..8}

\* A JavaScript number that need not be an integer, as numerator and
\* denominator; Math.floor of the quotient of an integer by it.
Half(n) == [num |-> n, den |-> 2]
FloorOver(x, q) == (x * q.den) \div q.num

\* modules/audio.ts: nyquist = sampleRate / 2 and
\* Math.floor(freq * bufferLength / nyquist).
nyquist(sampleRate) == Half(sampleRate)
voiceRangeStart(bufferLength, sampleRate) ==
    FloorOver(200 * bufferLength, nyquist(sampleRate))
voiceRangeEnd(bufferLength, sampleRate) ==
    FloorOver(7000 * bufferLength, nyquist(sampleRate))

\* contentScripts/audio.ts: Math.floor(freq * bufferLength / sampleRate / 2),
\* where the division by 2 applies to the quotient.
voiceRangeStart_cs(bufferLength, sampleRate) ==
    (200 * bufferLength) \div (sampleRate * 2)
voiceRangeEnd_cs(bufferLength, sampleRate) ==
    (7000 * bufferLength) \div (sampleRate * 2)

\* The audio graph exists and runs at one of the sample rates.
Init_band ==
    /\ recognition = FALSE
    /\ isListening = FALSE
    /\ isCommandDetected = FALSE
    /\ continuous = FALSE
    /\ audioAnalyzer = TRUE
    /\ isVoiceDetectionActive = FALSE
    /\ rafLoops = 0
    /\ engine = EngineIdle
    /\ timers = <<>>
    /\ microtasks = <<>>
    /\ stopWait = FALSE
    /\ stopCont = FALSE
    /\ last = Obs("constructor", "none")
    /\ err = NoErr
    /\ utt = NoUtt
    /\ fatal = FALSE
    /\ cs = NoCS
    /\ page = NoPage
    /\ \E sampleRate \in SampleRates :
          band = [NoBand EXCEPT !.sampleRate = sampleRate]
    /\ bg = NoBg

\* AudioManager.detectVoiceActivity computes the band it averages.
DetectBand ==
    /\ band.impl = "none"
    /\ band' = [ impl |-> "modules",
                 sampleRate |-> band.sampleRate,
                 voiceRangeStart |->
                     voiceRangeStart(frequencyBinCount, band.sampleRate),
                 voiceRangeEnd |->
                     voiceRangeEnd(frequencyBinCount, band.sampleRate) ]
    /\ last' = Obs("detectVoiceActivity", "modules")
    /\ UNCHANGED << recognition, isListening, isCommandDetected, continuous,
                    audioAnalyzer, isVoiceDetectionActive, rafLoops, engine,
                    timers, microtasks, stopWait, stopCont, err, utt, fatal, cs, page,
                    bg >>

\* detectVoiceActivity of contentScripts/audio.ts does the same.
DetectBand_cs ==
    /\ band.impl = "none"
    /\ band' = [ impl |-> "contentScripts",
                 sampleRate |-> band.sampleRate,
                 voiceRangeStart |->
                     voiceRangeStart_cs(frequencyBinCount, band.sampleRate),
                 voiceRangeEnd |->
                     voiceRangeEnd_cs(frequencyBinCount, band.sampleRate) ]
    /\ last' = Obs("detectVoiceActivity", "contentScripts")
    /\ UNCHANGED << recognition, isListening, isCommandDetected, continuous,
                    audioAnalyzer, isVoiceDetectionActive, rafLoops, engine,
                    timers, microtasks, stopWait, stopCont, err, utt, fatal, cs, page,
                    bg >>

Next_band ==
    \/ DetectBand
    \/ DetectBand_cs

Spec_band == Init_band /\ [][Next_band]_vars

\* ----------------------------------------------------------- background.ts
\* Bounds: registrations of the tab listeners, chrome.tabs.query callbacks
\* pending, processTabActivation calls and handleUserPrompt calls in flight,
\* threads the backend creates.
MaxRegistrations == 2
MaxQueries == 2
MaxActivations == 2
MaxPrompts == 1
MaxThreads == 2

getTabChatThreadId(b, tabId) ==
    IF tabId = 0 THEN 0 ELSE b.tabChatThreads[tabId]

setTabChatThreadId(b, tabId, chatThreadId) ==
    [b EXCEPT !.tabChatThreads[tabId] = chatThreadId]

clearTabChatThreadId(b, tabId) ==
    [b EXCEPT !.tabChatThreads[tabId] = 0]

\* chrome.tabs.sendMessage(tabId, { type })
sendMessage_bg(b, tabId, type) ==
    [b EXCEPT !.sent = Append(@, [type |-> type, to |-> tabId])]

\* The number of threads created so far; the backend names the next one.
RECURSIVE Sum(_, _)
Sum(f, S) ==
    IF S = {} THEN 0
    ELSE LET x == CHOOSE y \in S : TRUE IN f[x] + Sum(f, S \ {x})
Created(b) == Sum(b.created, Tabs)

\* handleUserPrompt(), up to `await uploadUserPrompt(prompt, threadId)`.
handleUserPrompt(b) ==
    IF b.currentTabId = 0 THEN b
    ELSE LET threadId == getTabChatThreadId(b, b.currentTabId)
         IN IF threadId = 0 THEN b
            ELSE [b EXCEPT !.agent = @ + 1,
                           !.prompts = Append(@, [tabId |-> b.currentTabId,
                                                  threadId |-> threadId])]

\* handleUserPrompt() after the await: the action goes to the tab that
\* currentTabId names now; with currentTabId null sendMessage throws and
\* the catch block logs.
handleUserPromptResume(b, i, ok) ==
    LET b1 == [b EXCEPT !.prompts = Remove(@, i)]
    IN IF ok /\ b1.currentTabId # 0
       THEN sendMessage_bg(b1, b1.currentTabId, "AGENT_ACTION")
       ELSE b1

\* processTabActivation(), up to its first await.
processTabActivation(b, tabId) ==
    LET b1 == [b EXCEPT !.currentTabId = tabId]
    IN IF getTabChatThreadId(b1, b1.currentTabId) # 0 THEN b1
       ELSE [sendMessage_bg(b1, tabId, "TAB_ACTIVATED") EXCEPT
               !.acts = Append(@, [tabId |-> tabId, at |-> "html"])]

\* processTabActivation() after one of its awaits: the page content, then
\* the screenshot, then uploadContext; a rejection at any of them ends in
\* the catch block.
processTabActivationResume(b, i, ok) ==
    LET a == b.acts[i]
    IN IF ~ok THEN [b EXCEPT !.acts = Remove(@, i)]
       ELSE CASE a.at = "html" -> [b EXCEPT !.acts[i].at = "screenshot"]
              [] a.at = "screenshot" -> [b EXCEPT !.acts[i].at = "upload"]
              [] OTHER ->
                   setTabChatThreadId(
                       [b EXCEPT !.acts = Remove(@, i),
                                 !.created[a.tabId] = @ + 1],
                       a.tabId, Created(b) + 1)

\* setupTabListeners(): one more onActivated and one more onRemoved listener.
setupTabListeners(b) == [b EXCEPT !.listeners = @ + 1]

\* chrome.tabs.onActivated: each of the n registered listeners runs.
RECURSIVE onActivated(_, _, _)
onActivated(b, tabId, n) ==
    IF n = 0 THEN b
    ELSE onActivated(processTabActivation(b, tabId), tabId, n - 1)

\* chrome.tabs.onRemoved: each of the n registered listeners runs.
RECURSIVE onRemoved(_, _, _)
onRemoved(b, tabId, n) ==
    IF n = 0 THEN b
    ELSE LET b1 == clearTabChatThreadId(b, tabId)
         IN onRemoved(IF b1.currentTabId = tabId
                      THEN [b1 EXCEPT !.currentTabId = 0] ELSE b1,
                      tabId, n - 1)

\* The callback of chrome.tabs.query({ active: true, currentWindow: true })
\* that the SCRIPT_LOADED case started for the message of tab sender: a
\* later task, which gets the tab that is active by then.
queryCallback(b, sender) ==
    IF b.active # 0 /\ b.active = sender
    THEN processTabActivation(b, b.active)
    ELSE b

\* The chrome.runtime.onMessage listener.  sender is the tab of the content
\* script that sent the message.
BgMessages == {"USER_COMMAND_RESULT", "SCRIPT_LOADED", "USER_COMMAND_STARTED",
               "START_LISTENING"}

onMessage_bg(b, type, sender, transcript) ==
    CASE type = "USER_COMMAND_RESULT" ->
             IF transcript THEN handleUserPrompt(b) ELSE b
      [] type = "SCRIPT_LOADED" ->
             LET b1 == setupTabListeners(b)
             IN IF sender # 0
                THEN [b1 EXCEPT !.queries = Append(@, sender)]
                ELSE b1
      [] type = "USER_COMMAND_STARTED" ->
             IF b.currentTabId # 0
             THEN sendMessage_bg(b, b.currentTabId, "USER_COMMAND_STARTED")
             ELSE b
      [] OTHER -> b

\* A handler of the background script starts and ends.
Begin_bg == [bg EXCEPT !.agent = 0, !.sent = <<>>]

Commit_bg(b, op, arg) ==
    /\ b.listeners <= MaxRegistrations
    /\ Len(b.queries) <= MaxQueries
    /\ Len(b.acts) <= MaxActivations
    /\ Len(b.prompts) <= MaxPrompts
    /\ Created(b) <= MaxThreads
    /\ bg' = b
    /\ last' = Obs(op, arg)
    /\ UNCHANGED << recognition, isListening, isCommandDetected, continuous,
                    audioAnalyzer, isVoiceDetectionActive, rafLoops, engine,
                    timers, microtasks, stopWait, stopCont, err, utt, fatal, cs, page,
                    band >>

\* The service worker has started; one of the tabs is the active one.
Init_bg ==
    /\ recognition = FALSE
    /\ isListening = FALSE
    /\ isCommandDetected = FALSE
    /\ continuous = FALSE
    /\ audioAnalyzer = FALSE
    /\ isVoiceDetectionActive = FALSE
    /\ rafLoops = 0
    /\ engine = EngineIdle
    /\ timers = <<>>
    /\ microtasks = <<>>
    /\ stopWait = FALSE
    /\ stopCont = FALSE
    /\ last = Obs("background", "none")
    /\ err = NoErr
    /\ utt = NoUtt
    /\ fatal = FALSE
    /\ cs = NoCS
    /\ page = NoPage
    /\ band = NoBand
    /\ \E t \in Tabs : bg = [NoBg EXCEPT !.active = t]

\* A content script of an open tab sends a message to the background.
Message_bg(type, sender, transcript) ==
    /\ sender \in bg.open
    /\ Commit_bg(onMessage_bg(Begin_bg, type, sender, transcript), type, sender)

\* chrome.tabs.query answers the oldest pending call.
QueryAnswered ==
    /\ bg.queries # <<>>
    /\ Commit_bg(queryCallback([Begin_bg EXCEPT !.queries = Tail(@)],
                               Head(bg.queries)),
                 "chrome.tabs.query", Head(bg.queries))

\* The user switches to another open tab.
TabActivated(tabId) ==
    /\ tabId \in bg.open
    /\ tabId # bg.active
    /\ Commit_bg(onActivated([Begin_bg EXCEPT !.active = tabId], tabId,
                             bg.listeners),
                 "onActivated", tabId)

\* A tab is closed.
TabRemoved(tabId) ==
    /\ tabId \in bg.open
    /\ Commit_bg(onRemoved([Begin_bg EXCEPT
                               !.open = @ \ {tabId},
                               !.active = IF @ = tabId THEN 0 ELSE @],
                           tabId, bg.listeners),
                 "onRemoved", tabId)

\* An await of the i-th processTabActivation settles.  The content script of
\* a removed tab does not answer TAB_ACTIVATED.
ActivationSettled(i, ok) ==
    /\ i \in DOMAIN bg.acts
    /\ (ok /\ bg.acts[i].at = "html") => bg.acts[i].tabId \in bg.open
    /\ Commit_bg(processTabActivationResume(Begin_bg, i, ok),
                 "processTabActivation", bg.acts[i].tabId)

\* uploadUserPrompt of the i-th handleUserPrompt settles.
PromptSettled(i, ok) ==
    /\ i \in DOMAIN bg.prompts
    /\ Commit_bg(handleUserPromptResume(Begin_bg, i, ok),
                 "handleUserPrompt", bg.prompts[i].tabId)

Next_bg ==
    \/ \E type \in BgMessages, sender \in Tabs, transcript \in BOOLEAN :
          Message_bg(type, sender, transcript)
    \/ QueryAnswered
    \/ \E tabId \in Tabs : TabActivated(tabId)
    \/ \E tabId \in Tabs : TabRemoved(tabId)
    \/ \E i \in 1..MaxActivations, ok \in BOOLEAN : ActivationSettled(i, ok)
    \/ \E i \in 1..MaxPrompts, ok \in BOOLEAN : PromptSettled(i, ok)

Spec_bg == Init_bg /\ [][Next_bg]_vars

\* ----------------------------------------------------------------- claims
Fatal(r) == r.code \in FatalCodes

\* Nothing is pending: no engine session (hence no engine event), no
\* restart timer, no continuation.
Quiescent == engine.st = "idle" /\ timers = <<>> /\ microtasks = <<>>

\* A session is listening.
Listening == isListening /\ engine.st # "idle"

\* The polling loop is running and its detections start a session: the flag
\* is set, a loop is scheduled and the listener's guard !isListening passes.
Polling == isVoiceDetectionActive /\ rafLoops > 0 /\ ~isListening

\* C1: once the pipeline is initialised, voice activity detection is active
\* if and only if no recognition session is listening.
C1_MutualExclusion ==
    (audioAnalyzer /\ recognition) => (isVoiceDetectionActive <=> ~isListening)

\* C2: the promise of stopListening() is not resolved, and the continuation
\* of disableContinuousMode() awaiting it does not run, before the end event
\* of the stopped session has been handled.
C2_StopResolvesAfterEnd ==
    /\ (microtasks # <<>> /\ Head(microtasks) = "disableContinuousMode:afterStop")
          => ~stopWait
    /\ last.op = "disableContinuousMode:afterStop" => ~stopWait

\* C3: no handler invokes the engine's start() while the engine still has
\* an active session.
C3_NoStartWhileActive == CountRefused(last) = 0

\* C4: an utterance whose wake phrase arrived in interim transcripts and
\* then in the final transcript had its wake handling run exactly once.
C4_WakeOnce == (utt.fin = "wake" /\ utt.iw) => utt.wakes = 1

\* C5: when handleSleep has run to completion the recognizer is listening
\* in a new one-shot session.
C5_SleepReturnsToOneShot ==
    last.op = "handleSleep:afterDisable"
      => (~continuous /\ isListening /\ engine.st = "starting"
          /\ ~engine.continuous)

\* C6: no quiescent state is reachable, after initialisation, in which the
\* polling loop is not running and no session is listening.
C6_NoDeafState ==
    (recognition /\ audioAnalyzer /\ Quiescent) => (Polling \/ Listening)

\* C6 witness: an error episode with a refused start has ended in a
\* quiescent state where the polling loop runs.
C6_Witness ==
    err.phase = "ended" /\ err.refused /\ Quiescent /\ Polling

\* C7: a no-speech error is answered by exactly one engine start attempt,
\* made by the error handler, counting the attempts of the error handler and
\* of the handler of the end event that follows.
C7_NoSpeechOneRestart ==
    (err.code = "no-speech" /\ err.phase \in {"error", "ended"}) => err.calls = 1

\* C8: a network error is answered by exactly one engine start attempt, and
\* none is made before its timer has expired.
C8_NetworkRestartAfterDelay ==
    err.code = "network" =>
        /\ (err.phase = "error" \/ err.tix > 0) => err.calls = 0
        /\ (err.phase = "ended" /\ err.tix = 0) => (err.sched /\ err.calls = 1)

\* C9: a fatal error leaves continuous mode off and triggers no restart:
\* neither the error handler nor the handler of the end event that follows
\* calls the engine's start(), and no restart timer is scheduled.
C9_FatalNoRestart ==
    (Fatal(err) /\ err.phase \in {"error", "ended"})
      => (~continuous /\ err.calls = 0 /\ ~err.sched /\ err.tix = 0)

\* C10: the handler of a fatal error clears the latch, leaves voice
\* detection active and sends exactly one error signal upstream.
C10_FatalSignal ==
    (last.op = "onerror" /\ last.arg \in FatalCodes)
      => /\ ~isCommandDetected
         /\ isVoiceDetectionActive
         /\ CountSig(last, "speech:error") = 1
         /\ CountMsg(last, "SPEECH_RECOGNITION_ERROR") = 1

\* C11: once the engine instance has reported a fatal error, no later
\* voice-detected event calls start() on that instance (the recognizer is
\* re-initialised with a fresh instance only by initialize()).
C11_DisabledAfterFatal ==
    (fatal /\ ~(last.op = "onerror" /\ last.arg \in FatalCodes))
      => CountStarts(last, "vad") = 0

\* C14: the command-stop signal is emitted exactly once by the completion of
\* handleSleep, with continuous mode off and after the end event of the
\* session that was asked to stop.
C14_SleepSignalAfterEnd ==
    last.op = "handleSleep:afterDisable"
      => /\ CountSig(last, "speech:sleep") = 1
         /\ CountMsg(last, "COPILOT_STOP") = 1
         /\ ~continuous
         /\ ~stopWait

\* The final part of a result event is processed: the event has one and the
\* interim part did not end the handler with a wake.
FinalProcessed(ev) ==
    /\ finalTranscript(ev) # <<>>
    /\ ~(/\ interimTranscript(ev) # <<>>
          /\ detectWakeWord(interimTranscript(ev))
          /\ ~isCommandDetected)

\* The handler that just ran was given a wake / a sleep classification.
\* (Handlers start with an empty microtask queue and handleSleep always
\* leaves a continuation.)
WakeHandled == CountSig(last, "speech:awake") > 0
SleepHandled == microtasks # <<>>

\* C15 as stated: a final transcript that contains a wake phrase and a sleep
\* phrase is handled as wake only; the sleep handler does not run for it.
C15_WakeOnlyForBoth ==
    [][\A ev \in ResultEvents :
         (/\ EngResult(ev)
          /\ FinalProcessed(ev)
          /\ detectWakeWord(finalTranscript(ev))
          /\ detectSleepCommand(finalTranscript(ev)))
           => (WakeHandled' /\ ~SleepHandled')]_vars

\* C15 amended: every processed final transcript gets at most one of the
\* two classifications; one that contains a wake phrase and a sleep phrase
\* is handled as wake only when the latch is clear and as sleep only when
\* the latch is set.
C15_OneClassByLatch ==
    [][\A ev \in ResultEvents :
         \/ ~(last'.op = "onresult" /\ FinalProcessed(ev))
         \/ /\ ~(WakeHandled' /\ SleepHandled')
            /\ (/\ detectWakeWord(finalTranscript(ev))
                /\ detectSleepCommand(finalTranscript(ev)))
                 => /\ WakeHandled' <=> ~isCommandDetected
                    /\ SleepHandled' <=> isCommandDetected
         \/ ~EngResult(ev)]_vars

\* C15 witness: a result handler ran the sleep handler and no wake handling
\* (every sleep phrase contains the wake phrase "copilot").
C15_Witness ==
    last.op = "onresult" /\ SleepHandled /\ ~WakeHandled

\* C16: after the handler of an end event that found continuous mode off
\* (the handler does not write the flag), the recognizer is not listening,
\* the latch is clear, voice detection is active and the handler has issued
\* no engine start.
C16_EndOneShot ==
    (last.op = "onend" /\ ~continuous)
      => /\ ~isListening
         /\ ~isCommandDetected
         /\ isVoiceDetectionActive
         /\ Len(last.starts) = 0

\* C17: the handler of an end event that finds continuous mode on issues
\* one engine start at once and does not start voice detection; a result
\* handler that confirms a wake phrase issues no start and no stop and
\* leaves the running session's mode as it is, so that the new mode applies
\* from the next session.
C17_EndContinuousRestarts ==
    [][/\ \A e \in Energies :
            (last'.op = "onend" /\ continuous /\ EngEnd(e))
              => /\ last'.starts = <<[origin |-> "onend", ok |-> TRUE]>>
                 /\ isListening'
                 /\ engine' = [st |-> "starting", continuous |-> TRUE,
                               sound |-> FALSE]
                 /\ isVoiceDetectionActive' = isVoiceDetectionActive
                 /\ rafLoops' = rafLoops
       /\ \A ev \in ResultEvents :
            (last'.op = "onresult" /\ WakeHandled' /\ EngResult(ev))
              => /\ last'.starts = <<>>
                 /\ stopWait' = stopWait
                 /\ engine'.continuous = engine.continuous
                 /\ continuous']_vars

\* C17 witness: an end handler has restarted the session in continuous
\* mode while voice detection, never stopped during the one-shot session
\* that heard the wake phrase, is left as it was.
C17_Witness ==
    /\ last.op = "onend"
    /\ continuous
    /\ last.starts = <<[origin |-> "onend", ok |-> TRUE]>>
    /\ engine.continuous
    /\ isVoiceDetectionActive

\* C18: the latch is clear after the handler of every end event and after
\* the handler of every result event that carries a final transcript, also
\* when that transcript triggered the wake handling.
C18_LatchClearAfterFinal ==
    [][/\ \A e \in Energies : EngEnd(e) => ~isCommandDetected'
       /\ \A ev \in ResultEvents :
            (EngResult(ev) /\ finalTranscript(ev) # <<>>)
              => ~isCommandDetected']_vars

\* C19: the handler of every result event publishes exactly one interim
\* 'speech:result' if the event's interim string is not empty and exactly
\* one final 'speech:result' if its final string is not empty, also when
\* the interim string contains a wake phrase.
C19_BothPartsPublished ==
    [][\A ev \in ResultEvents :
         EngResult(ev)
           => /\ CountSig(last', "speech:result:interim")
                  = (IF interimTranscript(ev) # <<>> THEN 1 ELSE 0)
              /\ CountSig(last', "speech:result:final")
                  = (IF finalTranscript(ev) # <<>> THEN 1 ELSE 0)]_vars

\* C20: a handler sends as many USER_COMMAND_RESULT messages as it published
\* final transcripts: none is produced from an interim transcript.
C20_OnlyFinalToPipeline ==
    CountMsg(last, "USER_COMMAND_RESULT") = CountSig(last, "speech:result:final")

\* C12: the handler of a retryable engine error (no-speech, aborted,
\* network, any unknown code) produces no 'speech:error' event and no
\* SPEECH_RECOGNITION_ERROR message.
C12_RetryableSilent ==
    (last.op = "onerror" /\ last.arg \notin FatalCodes)
      => /\ CountSig(last, "speech:error") = 0
         /\ CountMsg(last, "SPEECH_RECOGNITION_ERROR") = 0
         /\ CountSig(last, "SPEECH_RECOGNITION_ERROR") = 0

\* A result event has a wake phrase in a part the handler looks at.
HasWake(ev) ==
    \/ interimTranscript(ev) # <<>> /\ detectWakeWord(interimTranscript(ev))
    \/ finalTranscript(ev) # <<>> /\ detectWakeWord(finalTranscript(ev))

\* The command-started signals of the handler that just ran: 'speech:awake'
\* events forwarded as USER_COMMAND_STARTED, or the message sent directly.
CommandStarted ==
    CountSig(last, "speech:awake") + CountSig(last, "USER_COMMAND_STARTED")

\* C13: a result handler that processes a wake phrase with the latch clear
\* sets the latch, calls stopAllAudioPlayback once, sets the engine's
\* continuous flag and emits one command-started signal; with the latch set
\* it has none of these effects.
C13_WakeEffects ==
    [][\A ev \in ResultEvents :
         ((EngResult(ev) \/ EngResult_cs(ev)) /\ HasWake(ev))
           => IF ~isCommandDetected
              THEN /\ isCommandDetected'
                   /\ last'.playback = 1
                   /\ continuous'
                   /\ CommandStarted' = 1
                   /\ CountSig(last', "speech:awake")
                        = CountMsg(last', "USER_COMMAND_STARTED")
              ELSE /\ last'.playback = 0
                   /\ continuous' => continuous
                   /\ CommandStarted' = 0]_vars

\* The sessions a handler has started: its accepted start() calls.
SessionsStarted(o) ==
    Cardinality({i \in DOMAIN o.starts : o.starts[i].ok})

\* C21: an animation frame whose polling loop reports voice while the
\* recognizer is not listening starts exactly one session, and that session
\* is one-shot; while the recognizer is listening it starts nothing.
C21_VoiceDetectedStartsOneShot ==
    [][\A e \in Energies :
         (/\ AnimationFrame(e)
          /\ recognition
          /\ isVoiceDetectionActive
          /\ detectVoiceActivity(e))
           => IF ~isListening
              THEN /\ SessionsStarted(last') = 1
                   /\ engine' = [st |-> "starting", continuous |-> FALSE,
                                 sound |-> FALSE]
              ELSE /\ last'.starts = <<>>
                   /\ engine' = engine]_vars

\* The polling state of the AudioManager is left as it was.
SamePolling ==
    /\ isVoiceDetectionActive' = isVoiceDetectionActive
    /\ rafLoops' = rafLoops

\* C22: startVoiceActivityDetection() called while voice detection is
\* active (by the handlers of end and error events) and
\* stopVoiceActivityDetection() called while it is inactive (by the handlers
\* of start and sound-start events) leave the active flag and the number of
\* scheduled polling loops as they were.
C22_IdempotentStartStop ==
    [][/\ \A e \in Energies :
            (/\ last'.op = "onend"
             /\ ~continuous
             /\ isVoiceDetectionActive
             /\ EngEnd(e))
              => SamePolling
       /\ \A code \in ErrorCodes, e \in Energies :
            (/\ last'.op = "onerror"
             /\ (~continuous \/ code \in FatalCodes)
             /\ isVoiceDetectionActive
             /\ EngError(code, e))
              => SamePolling
       /\ (last'.op = "onsoundstart" /\ ~isVoiceDetectionActive /\ EngSoundStart)
              => SamePolling
       /\ (/\ last'.op = "onstart"
           /\ continuous
           /\ ~isVoiceDetectionActive
           /\ EngStart)
              => SamePolling]_vars

\* C22 witness: the handler of an end event has called
\* startVoiceActivityDetection() while voice detection was active.
C22_Witness ==
    /\ last.op = "onend"
    /\ CountSig(last, AlreadyActive) = 1
    /\ isVoiceDetectionActive
    /\ rafLoops > 0

\* C23: at a tick with voice detection active the polling loop reschedules
\* itself whether or not it detected voice; a loop that was running when
\* stopVoiceActivityDetection() was called emits no further voice-detected
\* event and ends at its next tick with one 'audio:voiceDetectionEnded'.
\* Hence after a tick with detection active exactly one loop is scheduled
\* and at most one voice-detected event was emitted, and after a tick with
\* detection inactive no loop is scheduled.
C23_CooperativeStop ==
    [][\A e \in Energies :
         AnimationFrame(e)
           => IF isVoiceDetectionActive
              THEN /\ rafLoops' = 1
                   /\ CountSig(last', "audio:voiceDetected")
                        = (IF detectVoiceActivity(e) THEN 1 ELSE 0)
              ELSE /\ rafLoops' = 0
                   /\ CountSig(last', "audio:voiceDetected") = 0
                   /\ CountSig(last', "audio:voiceDetectionEnded") = rafLoops]_vars

\* C24: detectVoiceActivity compares with strict greater-than against the
\* threshold 60: of the byte-scale averages, 60 and everything below is not
\* detected, 61 and everything above up to 255 is detected; a tick of the
\* polling loop emits a voice-detected event exactly for the detected ones.
C24_StrictThreshold ==
    [][\A e \in Energies :
         (last'.op = "frame" /\ isVoiceDetectionActive /\ AnimationFrame(e))
           => /\ CountSig(last', "audio:voiceDetected") > 0 <=> e >= 61
              /\ ~detectVoiceActivity(60)
              /\ \A v \in 0..ByteMax : detectVoiceActivity(v) <=> v >= 61]_vars

\* C24 witness: a tick with detection active has run the loop on an average
\* that is not above the threshold (the model's only such average is 60) and
\* emitted no voice-detected event.
C24_Witness ==
    /\ last.op = "frame"
    /\ isVoiceDetectionActive
    /\ rafLoops > 0
    /\ CountSig(last, "audio:voiceDetected") = 0
    /\ 60 \in Energies

\* The i-th manager's capture initialisation has failed / is under way.
Failed(i) == page.managers[i].st = "failed"
Awaiting(i) == page.managers[i].st = "awaiting"

\* C25: no AudioManager is created before a gesture, and whatever the number
\* and the timing of the gestures at most one is ever created.
C25_OneManager ==
    /\ page.managers # <<>> => page.listeners # events
    /\ Len(page.managers) <= 1

\* A further gesture would start an initialisation: a gesture handler is
\* registered and isInitialized does not make it return.
Retriggerable == page.listeners # {} /\ ~page.isInitialized

\* C26: once capture initialisation has failed and none is under way, no
\* voice detection has been started, no recognizer has been initialised and
\* a further gesture would start a new initialisation.
C26_FailureRetriggerable ==
    ((\E i \in DOMAIN page.managers : Failed(i))
       /\ (\A i \in DOMAIN page.managers : Failed(i)))
      => /\ \A i \in DOMAIN page.managers :
              ~page.managers[i].vad /\ page.inits[i] = 0
         /\ Retriggerable

\* C27: for every failed capture initialisation exactly one
\* AUDIO_CAPTURE_ERROR message has been sent on the bus.
C27_CaptureErrorSignal ==
    Cardinality({i \in DOMAIN page.sent : page.sent[i] = "AUDIO_CAPTURE_ERROR"})
      = Cardinality({i \in DOMAIN page.managers : Failed(i)})

\* The error reports a handler has sent upstream: forwarded 'speech:error'
\* events and SPEECH_RECOGNITION_ERROR messages sent directly.
ErrorReports(o) ==
    CountMsg(o, "SPEECH_RECOGNITION_ERROR") + CountSig(o, "SPEECH_RECOGNITION_ERROR")

\* C28: when the engine API is absent at initialize(), the failure is
\* reported upstream exactly once, and as long as the recognizer has no
\* engine no handler starts a session.
C28_AbsentApiReported ==
    /\ (last.op = "audio:initialized" /\ last.arg = "absent")
         => ErrorReports(last) = 1
    /\ ~recognition => (last.starts = <<>> /\ engine = EngineIdle)

\* C29: once the content script is initialised, an inbound START_LISTENING
\* message calls startListening(): with the recognizer not listening and
\* the engine idle a session is started; an inbound STOP_LISTENING message
\* calls stopListening(): a listening session is asked to stop.
C29_BusStartStop ==
    [][/\ ((BusMessage("START_LISTENING") \/ BusMessage_cs("START_LISTENING"))
             /\ recognition /\ ~isListening /\ engine.st = "idle")
            => /\ Len(last'.starts) = 1
               /\ engine'.st = "starting"
       /\ ((BusMessage("STOP_LISTENING") \/ BusMessage_cs("STOP_LISTENING"))
             /\ recognition /\ isListening /\ engine.st = "running")
            => engine'.st = "stopping"]_vars

\* C30: the engine's continuous flag is set by the handling of a wake
\* phrase only, and cleared by the handling of a sleep phrase and by the
\* handler of a fatal error only; every other handler (retryable errors,
\* start, end and sound events, transcripts without wake and sleep phrase,
\* timers, animation frames, bus messages, continuations) leaves it as it
\* was.
C30_ContinuousFrame ==
    [][/\ (continuous' /\ ~continuous)
            => \E ev \in ResultEvents :
                  EngResult(ev) /\ HasWake(ev) /\ WakeHandled'
       /\ (~continuous' /\ continuous)
            => \/ \E ev \in ResultEvents :
                     /\ EngResult(ev)
                     /\ finalTranscript(ev) # <<>>
                     /\ detectSleepCommand(finalTranscript(ev))
                     /\ SleepHandled'
               \/ \E code \in FatalCodes, e \in Energies : EngError(code, e)]_vars

\* C30 witness: the handler of a fatal error found continuous mode on and
\* has turned it off.
C30_Witness ==
    /\ last.op = "onerror"
    /\ last.arg \in FatalCodes
    /\ err.phase = "error"
    /\ err.cont
    /\ ~continuous

\* C31: a restart timer that fires while the recognizer is listening calls
\* no engine start and leaves the engine alone; one that fires while it is
\* not listening calls start() once.  A timer starts a session only when the
\* engine has none, so the timers never add a session to a running one.
C31_TimerRestartGuarded ==
    [][\A i \in 1..MaxTimers + 1 :
         (last'.op = "timer" /\ TimerFire(i))
           => /\ IF isListening
                 THEN last'.starts = <<>> /\ engine' = engine
                 ELSE Len(last'.starts) = 1
              /\ SessionsStarted(last') = 1 => engine.st = "idle"
              /\ last'.arg \in {"network", "unknown"}]_vars

\* C31 witness: a restart timer has fired while a session was listening and
\* has called no start, with a further timer still pending.
C31_Witness ==
    /\ last.op = "timer"
    /\ isListening
    /\ last.starts = <<>>
    /\ timers # <<>>

\* The bin of a frequency: floor(freq * fftSize / sampleRate).
binIndex(freq, sampleRate) == (freq * fftSize) \div sampleRate

\* C32: whenever an implementation of detectVoiceActivity has computed its
\* band, for FFT size 2048 and any of the sample rates, the start index is
\* binIndex(200) and the end index is binIndex(7000).
C32_BandBins ==
    band.impl # "none"
      => /\ band.voiceRangeStart = binIndex(200, band.sampleRate)
         /\ band.voiceRangeEnd = binIndex(7000, band.sampleRate)

\* The same, for modules/audio.ts alone.
X32_Modules ==
    band.impl = "modules"
      => /\ band.voiceRangeStart = binIndex(200, band.sampleRate)
         /\ band.voiceRangeEnd = binIndex(7000, band.sampleRate)

\* C33: at most one detectLoop callback is scheduled for the next animation
\* frame, whatever sequence of startVoiceActivityDetection,
\* stopVoiceActivityDetection and frames came before.
C33_OneLoop == rafLoops <= 1

\* C34: isListening is true only while the engine has a session, that is
\* from an accepted start() until the end event of that session is handled.
C34_ListeningHasSession == isListening => engine.st # "idle"

\* A continuous session has ended and its end handler has started the next.
C34_Witness ==
    /\ last.op = "onend" /\ isListening /\ engine.st = "starting"
    /\ SessionsStarted(last) = 1

\* The final transcript of a result event contains a sleep phrase.
HasSleep(ev) ==
    finalTranscript(ev) # <<>> /\ detectSleepCommand(finalTranscript(ev))

C36_SleepNeedsLatch ==
    [][\A ev \in ResultEvents :
         \/ last'.op # "onresult"
         \/ /\ SleepHandled' => (isCommandDetected /\ HasSleep(ev))
            /\ (HasSleep(ev) /\ ~isCommandDetected)
                 => /\ WakeHandled' /\ ~SleepHandled'
                    /\ isCommandDetected' /\ continuous'
         \/ ~EngResult(ev)]_vars

\* The sleep handler has run: continuous mode is off, the latch is clear and
\* the continuation of handleSleep is pending.
C36_Witness ==
    /\ last.op = "onresult" /\ SleepHandled
    /\ ~continuous /\ ~isCommandDetected /\ CountSig(last, "speech:awake") = 0

\* C37: isInitialized is true only if an AudioManager of the page has been
\* initialised successfully (its graph built and 'audio:initialized'
\* dispatched); while every initialisation has failed it is false.
C37_InitializedMeansReady ==
    page.isInitialized
      => \E i \in DOMAIN page.managers : page.managers[i].st = "ready"

\* C38 as stated: a handler calls the agent only if a current tab is set and
\* bound to a thread, and an AGENT_ACTION is sent only to the tab that was
\* current when the agent was called for it.
C38_ActionToSameTab ==
    /\ bg.agent > 0
          => bg.currentTabId # 0 /\ bg.tabChatThreads[bg.currentTabId] # 0
    /\ \A k \in DOMAIN bg.sent :
          bg.sent[k].type = "AGENT_ACTION"
            => (last.op = "handleUserPrompt" /\ bg.sent[k].to = last.arg)

\* The first half alone: the agent is called only with a current tab that
\* is bound to a thread.
X38_AgentNeedsBinding ==
    bg.agent > 0
      => bg.currentTabId # 0 /\ bg.tabChatThreads[bg.currentTabId] # 0

\* C39: no binding is held for a tab that has been removed.
C39_NoBindingForRemovedTab ==
    \A t \in Tabs : t \notin bg.open => bg.tabChatThreads[t] = 0

\* C40: the backend creates at most one thread for a tab that is not
\* removed, so the tab's binding, once set, is never replaced.
C40_OneThreadPerTab ==
    \A t \in bg.open : bg.created[t] <= 1

====
